---- MODULE Spec2Model ----
(***************************************************************************)
(* A model of the python-grami frequent-subgraph miner: DataGraph,         *)
(* Pattern and its canonical DFS code, the embedding enumerator, the       *)
(* candidate generator and the two mining drivers.                         *)
(*                                                                         *)
(* Representation.  A label is a string of at most one character and is    *)
(* represented by its code point, so that the integer order is Python's    *)
(* string order: "" is 0, "A" is 65, "B" is 66, "a" is 97, "~" is 126.     *)
(* None (an absent edge label) is -1.  Node ids are 0-based as in the      *)
(* source; a Python list is a sequence, so vlabels[u] is vlabels[u + 1].   *)
(* A Python dict keyed by node id is a function on 0 .. k-1.               *)
(***************************************************************************)
EXTENDS Integers, Sequences, FiniteSets, TLC

VARIABLES
    G,            \* the DataGraph the miner / enumerator was built on
    cfg,          \* the miner: class, min_support, use_sorting, and the
                  \* arguments of the mine call (parallel, max_size)
    pc,           \* position of the mine call
    frontier,     \* mine: frontier (list of Patterns)
    pending,      \* _evaluate_patterns: indices of the futures not yet done
    evalResults,  \* _evaluate_patterns: out, then mine: eval_results
    idx,          \* mine: position of the for loop over eval_results
    nextFrontier, \* mine: next_frontier
    results,      \* mine: results (key -> record)
    raw,          \* the arguments of DataGraph(directed, vlabels, edges)
    err,          \* the exception that ended the construction or the run
    pat,          \* the Pattern under canonicalisation / embedding
    prev,         \* canonicalisation: the Pattern before the last operation
    lastOp,       \* canonicalisation: the last operation applied
    embs,         \* embedding: full_mni_embeddings(pat)
    parentSupp,   \* embedding: mni_support of the pattern pat was extended from
    cnt,          \* embedding: the last value returned by full_support_count
    lastCap       \* embedding: the cap of that call

mineVars == <<cfg, pc, frontier, pending, evalResults, idx, nextFrontier, results,
              raw, err>>
canonVars == <<prev, lastOp>>
embedVars == <<embs, parentSupp, cnt, lastCap>>
vars == <<G, cfg, pc, frontier, pending, evalResults, idx, nextFrontier,
          results, raw, err, pat, prev, lastOp, embs, parentSupp, cnt,
          lastCap>>

(***************************************************************************)
(* Labels                                                                  *)
(***************************************************************************)
NoneLabel == -1
EmptyStr == 0
Tilde == 126
Unseen == 1000000000

VLabelUniverse == {65, 66}
ELabelUniverse == {NoneLabel, EmptyStr, 97}

\* bounds of the pattern universe explored by the canonicalisation checks
MaxPatNodes == 3
MaxPatEdges == 2

Min2(a, b) == IF a <= b THEN a ELSE b
Max2(a, b) == IF a >= b THEN a ELSE b

\* `el or ""`
OrEmpty(el) == IF el = NoneLabel THEN EmptyStr ELSE el

\* Python's tuple order on two integer tuples of the same length
LexLT(a, b) ==
    \E i \in 1..Len(a) : a[i] < b[i] /\ \A j \in 1..(i - 1) : a[j] = b[j]

\* Python's tuple order on two DFS codes (tuples of 6-tuples)
CodeLT(c1, c2) ==
    \/ \E i \in 1..Min2(Len(c1), Len(c2)) :
          LexLT(c1[i], c2[i]) /\ \A j \in 1..(i - 1) : c1[j] = c2[j]
    \/ Len(c1) < Len(c2) /\ \A j \in 1..Len(c1) : c1[j] = c2[j]

Edge(u, v, label) == [u |-> u, v |-> v, label |-> label]

(***************************************************************************)
(* canonical.py: _CanonDFSHelper                                           *)
(***************************************************************************)
\* p_adj[u]: for each edge in list order, (v, label, 1|0) at e.u and then
\* (u, label, 2|0) at e.v
PAdj(directed, edges, u) ==
    LET F[i \in 0..Len(edges)] ==
            IF i = 0 THEN <<>>
            ELSE LET e == edges[i] IN
                 F[i - 1]
                 \o (IF e.u = u
                     THEN << <<e.v, e.label, IF directed THEN 1 ELSE 0>> >>
                     ELSE <<>>)
                 \o (IF e.v = u
                     THEN << <<e.u, e.label, IF directed THEN 2 ELSE 0>> >>
                     ELSE <<>>)
    IN F[Len(edges)]

EdgeKeys(directed, edges) ==
    { IF directed
      THEN <<edges[i].u, edges[i].v, edges[i].label, 1>>
      ELSE <<Min2(edges[i].u, edges[i].v), Max2(edges[i].u, edges[i].v),
             edges[i].label, 0>> : i \in 1..Len(edges) }

NormKey(directed, u, v, el, df) ==
    IF directed THEN <<u, v, el, 1>>
    ELSE <<Min2(u, v), Max2(u, v), el, 0>>

\* visited_idx is kept as the sequence of nodes in order of first visit
InSeq(s, x) == \E i \in 1..Len(s) : s[i] = x
IdxOf(vis, u) == (CHOOSE i \in 1..Len(vis) : vis[i] = u) - 1
Assign(vis, u) == IF InSeq(vis, u) THEN vis ELSE Append(vis, u)

PushEdgeAt(directed, vlabels, st, vis2, u, v, el, df) ==
    [vis  |-> vis2,
     code |-> Append(st.code,
                     <<IdxOf(vis2, u), IdxOf(vis2, v), vlabels[u + 1],
                       OrEmpty(el), vlabels[v + 1], df>>),
     used |-> st.used \cup {NormKey(directed, u, v, el, df)}]

PushEdge(directed, vlabels, st, u, v, el, df) ==
    PushEdgeAt(directed, vlabels, st, Assign(Assign(st.vis, u), v),
               u, v, el, df)

\* the frontier entries of one visited node u (the k-th visited), given
\* its p_adj list: (u, v, el, df, uidx, vidx or 10**9), unused edges only
FrontierOfNode(directed, st, k, u, adj) ==
    SelectSeq([j \in 1..Len(adj) |->
                 <<u, adj[j][1], adj[j][2], adj[j][3], k - 1,
                   IF InSeq(st.vis, adj[j][1])
                   THEN IdxOf(st.vis, adj[j][1]) ELSE Unseen>>],
              LAMBDA t : NormKey(directed, t[1], t[2], t[3], t[4])
                         \notin st.used)

\* the unused incident edges of the visited nodes, in visit order and then
\* in p_adj order
Frontier(directed, edges, st) ==
    LET F[k \in 0..Len(st.vis)] ==
            IF k = 0 THEN <<>>
            ELSE F[k - 1] \o FrontierOfNode(directed, st, k, st.vis[k],
                                            PAdj(directed, edges, st.vis[k]))
    IN F[Len(st.vis)]

SortKey(vlabels, t) ==
    <<t[5],
      vlabels[t[1] + 1],
      OrEmpty(t[3]),
      IF t[6] # Unseen THEN 0 ELSE 1,
      IF t[6] # Unseen THEN vlabels[t[2] + 1] ELSE Tilde,
      t[4],
      t[6]>>

\* frontier.sort(...)[0]: the sort is stable, so the first minimal element
FirstMin(vlabels, fr) ==
    fr[CHOOSE i \in 1..Len(fr) :
          /\ \A j \in 1..Len(fr) :
                ~LexLT(SortKey(vlabels, fr[j]), SortKey(vlabels, fr[i]))
          /\ \A j \in 1..(i - 1) :
                SortKey(vlabels, fr[j]) # SortKey(vlabels, fr[i])]

PushFrontierEdge(directed, vlabels, st, t) ==
    PushEdge(directed, vlabels, st, t[1], t[2], t[3], t[4])

\* the while loop of _dfs_enumerate: DfsLoop is the loop test on used_edges,
\* DfsEmit the rest of the body for the frontier fr
RECURSIVE DfsLoop(_, _, _, _)
DfsEmit(directed, vlabels, edges, st, fr) ==
    IF fr = <<>> THEN st.code
    ELSE DfsLoop(directed, vlabels, edges,
                 PushFrontierEdge(directed, vlabels, st, FirstMin(vlabels, fr)))

DfsLoop(directed, vlabels, edges, st) ==
    IF EdgeKeys(directed, edges) \subseteq st.used THEN st.code
    ELSE DfsEmit(directed, vlabels, edges, st, Frontier(directed, edges, st))

DfsEnumerate(directed, vlabels, edges, su, sv, elab, dflag) ==
    DfsLoop(directed, vlabels, edges,
            PushEdge(directed, vlabels,
                     [vis |-> <<>>, code |-> <<>>, used |-> {}],
                     su, sv, elab, dflag))

\* sorted(self.edge_keys) compares None with a string, and raises, exactly
\* when two edge keys agree on (u, v) and one label is None
Sortable(directed, edges) ==
    \A k1, k2 \in EdgeKeys(directed, edges) :
        (k1[1] = k2[1] /\ k1[2] = k2[2] /\ k1 # k2)
            => (k1[3] # NoneLabel /\ k2[3] # NoneLabel)

\* `best`: the smallest of the enumerations, or the empty tuple
SmallestCode(codes) ==
    IF codes = {} THEN <<>>
    ELSE CHOOSE c \in codes : \A d \in codes : ~CodeLT(d, c)

\* the smallest DFS enumeration over the seed edges; the seeds are the
\* edge keys, and the minimum does not depend on the order they are tried
CanonicalCode(directed, vlabels, edges) ==
    SmallestCode({ DfsEnumerate(directed, vlabels, edges,
                                s[1], s[2], s[3], s[4])
                   : s \in EdgeKeys(directed, edges) })

(***************************************************************************)
(* pattern.py: Pattern                                                     *)
(***************************************************************************)
CanonicalKey(directed, vlabels, edges) ==
    <<directed, CanonicalCode(directed, vlabels, edges)>>

Pattern(vlabels, edges, directed) ==
    [directed |-> directed, vlabels |-> vlabels, edges |-> edges,
     key |-> CanonicalKey(directed, vlabels, edges)]

NumNodes(p) == Len(p.vlabels)

EdgeSet(p) ==
    { IF p.directed
      THEN <<p.edges[i].u, p.edges[i].v, p.edges[i].label>>
      ELSE <<Min2(p.edges[i].u, p.edges[i].v),
             Max2(p.edges[i].u, p.edges[i].v), p.edges[i].label>>
      : i \in 1..Len(p.edges) }

(***************************************************************************)
(* graph.py: DataGraph                                                     *)
(***************************************************************************)
\* the position a Python list of length n reads or writes under index i: a
\* negative index counts from the end
ListIndex(n, i) == IF i < 0 THEN n + i ELSE i

\* list[i] raises IndexError
IndexError(n, i) == i >= n \/ i < 0 - n

\* s[i] of a Python list s
At(s, i) == s[ListIndex(Len(s), i) + 1]

\* adj[x]: per edge in list order, (v, label) at e.u and, for an undirected
\* graph, (u, label) at e.v
AdjOf(directed, n, edges, x) ==
    LET F[i \in 0..Len(edges)] ==
            IF i = 0 THEN <<>>
            ELSE LET e == edges[i] IN
                 F[i - 1]
                 \o (IF ListIndex(n, e.u) = x
                     THEN << <<e.v, e.label>> >> ELSE <<>>)
                 \o (IF ~directed /\ ListIndex(n, e.v) = x
                     THEN << <<e.u, e.label>> >> ELSE <<>>)
    IN F[Len(edges)]

\* rev[x]: per edge in list order, (u, label) at e.v and, for an undirected
\* graph, (v, label) at e.u
RevOf(directed, n, edges, x) ==
    LET F[i \in 0..Len(edges)] ==
            IF i = 0 THEN <<>>
            ELSE LET e == edges[i] IN
                 F[i - 1]
                 \o (IF ListIndex(n, e.v) = x
                     THEN << <<e.u, e.label>> >> ELSE <<>>)
                 \o (IF ~directed /\ ListIndex(n, e.u) = x
                     THEN << <<e.v, e.label>> >> ELSE <<>>)
    IN F[Len(edges)]

DataGraph(directed, vlabels, edges) ==
    [directed  |-> directed,
     vlabels   |-> vlabels,
     adj       |-> [x \in 0..(Len(vlabels) - 1) |->
                      AdjOf(directed, Len(vlabels), edges, x)],
     rev       |-> [x \in 0..(Len(vlabels) - 1) |->
                      RevOf(directed, Len(vlabels), edges, x)],
     lab2nodes |-> [l \in {vlabels[i] : i \in 1..Len(vlabels)} |->
                      {x \in 0..(Len(vlabels) - 1) : vlabels[x + 1] = l}]]

\* the constructor raises IndexError at the first adj[e.u] or rev[e.v] out of
\* range
DataGraphRaises(vlabels, edges) ==
    \E k \in 1..Len(edges) :
        \/ IndexError(Len(vlabels), edges[k].u)
        \/ IndexError(Len(vlabels), edges[k].v)

\* adj[v] of a built graph, v a node id as stored in an adjacency list
AdjAt(g, v) == g.adj[ListIndex(Len(g.vlabels), v)]

HasEdge(g, u, v, label) ==
    \E k \in 1..Len(g.adj[u]) :
        /\ g.adj[u][k][1] = v
        /\ (label = NoneLabel \/ g.adj[u][k][2] = label)

(***************************************************************************)
(* embed.py: EmbeddingEnumerator                                           *)
(***************************************************************************)
NoCap == -1

\* lab2nodes.get(lbl, set())
InitialDomains(g, p) ==
    [i \in 0..(NumNodes(p) - 1) |->
        IF p.vlabels[i + 1] \in DOMAIN g.lab2nodes
        THEN g.lab2nodes[p.vlabels[i + 1]] ELSE {}]

PatDegree(p, u) ==
    Cardinality({i \in 1..Len(p.edges) : p.edges[i].u = u})
    + Cardinality({i \in 1..Len(p.edges) : p.edges[i].v = u})

\* the key (len(domains[u]), -deg[u], u)
OrderKey(p, domains, u) ==
    <<Cardinality(domains[u]), 0 - PatDegree(p, u), u>>

\* sorted(range(n), key = OrderKey)
AssignmentOrder(p, domains) ==
    [k \in 1..NumNodes(p) |->
        CHOOSE u \in 0..(NumNodes(p) - 1) :
            Cardinality({w \in 0..(NumNodes(p) - 1) :
                            LexLT(OrderKey(p, domains, w),
                                  OrderKey(p, domains, u))}) = k - 1]

\* nbrs[u]: (v, label, 1) at e.u; at e.v (u, label, 1) for an undirected
\* pattern and (u, label, 2) for a directed one
Nbrs(p, x) ==
    LET F[i \in 0..Len(p.edges)] ==
            IF i = 0 THEN <<>>
            ELSE F[i - 1]
                 \o (IF p.edges[i].u = x
                     THEN << <<p.edges[i].v, p.edges[i].label, 1>> >>
                     ELSE <<>>)
                 \o (IF p.edges[i].v = x
                     THEN << <<p.edges[i].u, p.edges[i].label,
                               IF p.directed THEN 2 ELSE 1>> >>
                     ELSE <<>>)
    IN F[Len(p.edges)]

\* NbrOk without the direction flag d: every entry is tested as outgoing
NbrOkIgnoringDirection(g, assignment, u_g, t) ==
    t[1] \in DOMAIN assignment => HasEdge(g, u_g, assignment[t[1]], t[2])

\* the test of one entry (v_p, elab, d) of nbrs[u_p]
NbrOk(g, assignment, u_g, t) ==
    t[1] \in DOMAIN assignment =>
        IF t[3] = 1 THEN HasEdge(g, u_g, assignment[t[1]], t[2])
        ELSE HasEdge(g, assignment[t[1]], u_g, t[2])

ConsistentWith(g, assignment, u_g, nbrs) ==
    \A k \in 1..Len(nbrs) : NbrOk(g, assignment, u_g, nbrs[k])

Consistent(g, p, assignment, u_p, u_g) ==
    /\ p.vlabels[u_p + 1] = g.vlabels[u_g + 1]
    /\ ConsistentWith(g, assignment, u_g, Nbrs(p, u_p))

Values(f) == {f[x] : x \in DOMAIN f}

\* backtrack(i) of full_mni_embeddings: the solutions found below position
\* i, the candidates of a domain being tried in ascending order
RECURSIVE BacktrackAll(_, _, _, _, _, _)
BacktrackAll(g, p, domains, order, i, assignment) ==
    IF i = Len(order) THEN <<assignment>>
    ELSE LET u_p == order[i + 1]
             n == Len(g.vlabels)
             F[x \in 0..n] ==
                 IF x = 0 THEN <<>>
                 ELSE LET u_g == x - 1 IN
                      IF /\ u_g \in domains[u_p]
                         /\ u_g \notin Values(assignment)
                         /\ Consistent(g, p, assignment, u_p, u_g)
                      THEN F[x - 1] \o
                           BacktrackAll(g, p, domains, order, i + 1,
                                        (u_p :> u_g) @@ assignment)
                      ELSE F[x - 1]
         IN F[n]

EmbeddingsOver(g, p, domains) ==
    BacktrackAll(g, p, domains, AssignmentOrder(p, domains), 0, <<>>)

FullMniEmbeddings(g, p) == EmbeddingsOver(g, p, InitialDomains(g, p))

\* backtrack(i) of full_support_count: the value of count after the call
RECURSIVE BacktrackCount(_, _, _, _, _, _, _, _)
BacktrackCount(g, p, domains, order, cap, i, assignment, count) ==
    IF cap # NoCap /\ count >= cap THEN count
    ELSE IF i = Len(order) THEN count + 1
    ELSE LET u_p == order[i + 1]
             n == Len(g.vlabels)
             F[x \in 0..n] ==
                 IF x = 0 THEN count
                 ELSE LET u_g == x - 1 IN
                      IF /\ u_g \in domains[u_p]
                         /\ u_g \notin Values(assignment)
                         /\ Consistent(g, p, assignment, u_p, u_g)
                      THEN BacktrackCount(g, p, domains, order, cap, i + 1,
                                          (u_p :> u_g) @@ assignment,
                                          F[x - 1])
                      ELSE F[x - 1]
         IN F[n]

\* CountOver with the cap tested one embedding late (count > cap)
CountOverLateCap(g, p, domains, cap) ==
    BacktrackCount(g, p, domains, AssignmentOrder(p, domains),
                   IF cap = NoCap THEN NoCap ELSE cap + 1, 0, <<>>, 0)

CountOver(g, p, domains, cap) ==
    BacktrackCount(g, p, domains, AssignmentOrder(p, domains), cap,
                   0, <<>>, 0)

FullSupportCount(g, p, cap) == CountOver(g, p, InitialDomains(g, p), cap)

SetMin(xs) == CHOOSE m \in xs : \A x \in xs : m <= x

\* MniSupport counting the distinct images of all pattern nodes together
MniSupportOfUnion(embeddings, k) ==
    IF k = 0 THEN 0
    ELSE Cardinality({embeddings[j][i] : j \in 1..Len(embeddings),
                                         i \in 0..(k - 1)})

MniSupport(embeddings, k) ==
    IF k = 0 THEN 0
    ELSE SetMin({ Cardinality({embeddings[j][i] : j \in 1..Len(embeddings)})
                  : i \in 0..(k - 1) })

(***************************************************************************)
(* Helpers for Python lists                                                *)
(***************************************************************************)
\* the concatenation of the sequences of a sequence
RECURSIVE Flatten(_)
Flatten(ss) == IF ss = <<>> THEN <<>> ELSE Head(ss) \o Flatten(Tail(ss))

\* a `seen` set filter: the first element of each key, in order
DedupBy(s, K(_)) ==
    LET F[i \in 0..Len(s)] ==
            IF i = 0 THEN <<>>
            ELSE IF \E j \in 1..(i - 1) : K(s[j]) = K(s[i]) THEN F[i - 1]
            ELSE Append(F[i - 1], s[i])
    IN F[Len(s)]

\* list.sort(key = K): stable, ascending in Python's tuple order
StableSortBy(s, K(_)) ==
    LET Before(j, i) == LexLT(K(s[j]), K(s[i])) \/ (K(s[j]) = K(s[i]) /\ j < i)
        Rank(i) == Cardinality({j \in 1..Len(s) : Before(j, i)})
    IN [k \in 1..Len(s) |-> s[CHOOSE i \in 1..Len(s) : Rank(i) = k - 1]]

Reverse(s) == [i \in 1..Len(s) |-> s[Len(s) + 1 - i]]

\* (u, v, label) for u in range(n), for (v, label) in adj[u]
AdjVisits(g) ==
    Flatten([x \in 1..Len(g.vlabels) |->
               [k \in 1..Len(g.adj[x - 1]) |->
                  <<x - 1, g.adj[x - 1][k][1], g.adj[x - 1][k][2]>>]])

(***************************************************************************)
(* graph.py: DataGraph.edge_type_counts                                    *)
(***************************************************************************)
EdgeTypeOf(g, t) ==
    LET lu == At(g.vlabels, t[1])
        lv == At(g.vlabels, t[2])
    IN IF g.directed THEN <<lu, lv, t[3], 1>>
       ELSE <<Min2(lu, lv), Max2(lu, lv), t[3], 0>>

\* the visits that are counted: all of them for a directed graph, those
\* that pass the `u > v: continue` guard for an undirected one
CountedVisits(g) ==
    SelectSeq(AdjVisits(g), LAMBDA t : g.directed \/ ~(t[1] > t[2]))

\* the dict built from the edge types of the counted visits, as the
\* sequence of (type, count) in insertion order
CountTypes(tys) ==
    LET types == DedupBy(tys, LAMBDA ty : ty)
    IN [k \in 1..Len(types) |->
          <<types[k], Cardinality({i \in 1..Len(tys) : tys[i] = types[k]})>>]

TypesOfVisits(g, vs) == [i \in 1..Len(vs) |-> EdgeTypeOf(g, vs[i])]

EdgeTypeCounts(g) == CountTypes(TypesOfVisits(g, CountedVisits(g)))

(***************************************************************************)
(* miner.py: SoGraMiHeuristics                                             *)
(***************************************************************************)
LabelRarity(g, l) ==
    IF l \in DOMAIN g.lab2nodes THEN Cardinality(g.lab2nodes[l]) ELSE 0

Deg(g, v) == Len(AdjAt(g, v))

NeighborOrder(g, u_g) ==
    StableSortBy(g.adj[u_g],
                 LAMBDA t : <<LabelRarity(g, At(g.vlabels, t[1])),
                              0 - Deg(g, t[1])>>)

DegreePrune(need_deg, cand_deg) == cand_deg >= need_deg

(***************************************************************************)
(* candidate.py: CandidateGenerator                                        *)
(***************************************************************************)
\* the label tuple a visit is deduplicated by
SeedTuple(g, t) ==
    LET lu == At(g.vlabels, t[1])
        lv == At(g.vlabels, t[2])
    IN IF g.directed THEN <<lu, lv, t[3], TRUE>>
       ELSE <<Min2(lu, lv), Max2(lu, lv), t[3], FALSE>>

SeedOf(g, t) ==
    Pattern(<<At(g.vlabels, t[1]), At(g.vlabels, t[2])>>,
            <<Edge(0, 1, t[3])>>, g.directed)

SeedsOfVisits(g, firsts) == [k \in 1..Len(firsts) |-> SeedOf(g, firsts[k])]

\* one pattern per label tuple, built from the first visit that shows it;
\* an undirected graph skips the visits with u >= v
SeedPatterns(g) ==
    SeedsOfVisits(g,
        DedupBy(SelectSeq(AdjVisits(g),
                          LAMBDA t : g.directed \/ ~(t[1] >= t[2])),
                LAMBDA t : SeedTuple(g, t)))

\* parent[to_idx] = frm_idx for the first tuple that discovers to_idx
ParentOf(code) ==
    LET F[i \in 0..Len(code)] ==
            IF i = 0 THEN [seen |-> {}, parent |-> <<>>]
            ELSE LET frm == code[i][1]
                     to == code[i][2]
                     seen1 == F[i - 1].seen \cup {frm}
                 IN IF to \notin seen1
                    THEN [seen |-> seen1 \cup {to},
                          parent |-> (to :> frm) @@ F[i - 1].parent]
                    ELSE [seen |-> seen1, parent |-> F[i - 1].parent]
    IN F[Len(code)].parent

RECURSIVE ParentChain(_, _)
ParentChain(parent, path) ==
    IF path[Len(path)] \in DOMAIN parent
    THEN ParentChain(parent, Append(path, parent[path[Len(path)]]))
    ELSE path

SetMax(xs) == CHOOSE m \in xs : \A x \in xs : x <= m

RmPathOfCode(code, n) ==
    IF code = <<>> THEN [i \in 1..n |-> i - 1]
    ELSE Reverse(ParentChain(
             ParentOf(code),
             <<SetMax({code[i][1] : i \in 1..Len(code)}
                      \cup {code[i][2] : i \in 1..Len(code)})>>))

RmPath(p) ==
    RmPathOfCode(CanonicalCode(p.directed, p.vlabels, p.edges), NumNodes(p))

PatDeg(p, u_p) ==
    Cardinality({i \in 1..Len(p.edges) :
                    p.edges[i].u = u_p \/ p.edges[i].v = u_p})

\* the labels of the entries of adj[u_g] that lead to w_g, in list order
LabsTo(g, u_g, w_g) ==
    LET hits == SelectSeq(g.adj[u_g], LAMBDA t : t[1] = w_g)
    IN [k \in 1..Len(hits) |-> hits[k][2]]

\* allowed_edge_types: None, or a set of edge types
NoFilter == [some |-> FALSE, types |-> {}]
TypeFilter(types) == [some |-> TRUE, types |-> types]
Allowed(allowed, ty) == ~allowed.some \/ ty \in allowed.types

Cand(vlabels, edges, directed) ==
    [vlabels |-> vlabels, edges |-> edges, directed |-> directed]

\* Pattern(vlabels, edges + [e], directed) for each label kept
AddEdges(p, labs, u, v) ==
    [k \in 1..Len(labs) |->
        Cand(p.vlabels, Append(p.edges, Edge(u, v, labs[k])), p.directed)]

\* undirected back edges: labs is the label list found between the images
UndirectedBack(p, allowed, u_p, w_p, labs) ==
    AddEdges(p,
             SelectSeq(labs, LAMBDA el :
                /\ <<Min2(u_p, w_p), Max2(u_p, w_p), el>> \notin EdgeSet(p)
                /\ Allowed(allowed,
                           <<Min2(p.vlabels[u_p + 1], p.vlabels[w_p + 1]),
                             Max2(p.vlabels[u_p + 1], p.vlabels[w_p + 1]),
                             el, 0>>)),
             u_p, w_p)

\* directed back edges from a_p to b_p, the images being a_g and b_g
DirectedBack(g, p, allowed, a_p, b_p, a_g, b_g) ==
    IF HasEdge(g, a_g, b_g, NoneLabel)
    THEN AddEdges(p,
                  SelectSeq(LabsTo(g, a_g, b_g), LAMBDA el :
                     /\ <<a_p, b_p, el>> \notin EdgeSet(p)
                     /\ Allowed(allowed, <<p.vlabels[a_p + 1],
                                           p.vlabels[b_p + 1], el, 1>>)),
                  a_p, b_p)
    ELSE <<>>

\* the back-edge candidates between rm (u_p) and one ancestor w_p, the
\* images being u_g and w_g
BackCandsAt(g, p, allowed, u_p, w_p, u_g, w_g) ==
    IF ~p.directed
    THEN IF HasEdge(g, u_g, w_g, NoneLabel) \/ HasEdge(g, w_g, u_g, NoneLabel)
         THEN UndirectedBack(p, allowed, u_p, w_p,
                             IF LabsTo(g, u_g, w_g) = <<>>
                             THEN LabsTo(g, w_g, u_g)
                             ELSE LabsTo(g, u_g, w_g))
         ELSE <<>>
    ELSE DirectedBack(g, p, allowed, u_p, w_p, u_g, w_g)
         \o DirectedBack(g, p, allowed, w_p, u_p, w_g, u_g)

BackCands(g, p, emb, allowed, u_p, w_p) ==
    BackCandsAt(g, p, allowed, u_p, w_p, emb[u_p], emb[w_p])

\* the neighbour is not in the image, and passes degree_prune under heur
Fresh(g, p, emb, heur, u_p, t) ==
    /\ t[1] \notin Values(emb)
    /\ (heur => DegreePrune(PatDeg(p, u_p) + 1, Len(AdjAt(g, t[1]))))

\* Pattern(vlabels + [lv], edges + [Edge(u_p, new_vid, elab)], directed)
GrowOut(g, p, u_p, outs) ==
    [k \in 1..Len(outs) |->
        Cand(Append(p.vlabels, At(g.vlabels, outs[k][1])),
             Append(p.edges, Edge(u_p, NumNodes(p), outs[k][2])), p.directed)]

\* Pattern(vlabels + [lv], edges + [Edge(new_vid, u_p, elab)], True)
GrowIn(g, p, u_p, ins) ==
    [k \in 1..Len(ins) |->
        Cand(Append(p.vlabels, At(g.vlabels, ins[k][1])),
             Append(p.edges, Edge(NumNodes(p), u_p, ins[k][2])), TRUE)]

\* rev[u_g], sorted by (label rarity, -degree) under heur
InNeighbors(g, heur, u_g) ==
    IF heur
    THEN StableSortBy(g.rev[u_g],
                      LAMBDA t : <<LabelRarity(g, At(g.vlabels, t[1])),
                                   0 - Len(AdjAt(g, t[1]))>>)
    ELSE g.rev[u_g]

\* the forward candidates that grow a new vertex from u_p, under emb
ForwardCands(g, p, emb, heur, allowed, u_p) ==
    GrowOut(g, p, u_p,
            SelectSeq(IF heur THEN NeighborOrder(g, emb[u_p])
                      ELSE g.adj[emb[u_p]],
                      LAMBDA t :
                         /\ Fresh(g, p, emb, heur, u_p, t)
                         /\ Allowed(allowed,
                               IF p.directed
                               THEN <<p.vlabels[u_p + 1],
                                      At(g.vlabels, t[1]), t[2], 1>>
                               ELSE <<Min2(p.vlabels[u_p + 1], At(g.vlabels, t[1])),
                                      Max2(p.vlabels[u_p + 1], At(g.vlabels, t[1])),
                                      t[2], 0>>)))
    \o
    (IF g.directed
     THEN GrowIn(g, p, u_p,
                 SelectSeq(InNeighbors(g, heur, emb[u_p]),
                           LAMBDA t :
                              /\ Fresh(g, p, emb, heur, u_p, t)
                              /\ Allowed(allowed,
                                         <<At(g.vlabels, t[1]),
                                           p.vlabels[u_p + 1], t[2], 1>>)))
     ELSE <<>>)

\* the body of `for emb in embeddings`: the back edges from rm to the
\* ancestors in reverse order, then the forward edges of grow_verts
CandsOfEmb(g, p, emb, heur, allowed, rm, back_verts, grow_verts) ==
    (IF rm \in DOMAIN emb
     THEN Flatten([k \in 1..Len(back_verts) |->
                     IF back_verts[k] \in DOMAIN emb
                     THEN BackCands(g, p, emb, allowed, rm, back_verts[k])
                     ELSE <<>>])
     ELSE <<>>)
    \o
    Flatten([k \in 1..Len(grow_verts) |->
               IF grow_verts[k] \in DOMAIN emb
               THEN ForwardCands(g, p, emb, heur, allowed, grow_verts[k])
               ELSE <<>>])

CandsOnPath(g, p, embeddings, heur, allowed, rm, ancestors, rmpath) ==
    Flatten([j \in 1..Len(embeddings) |->
               CandsOfEmb(g, p, embeddings[j], heur, allowed, rm,
                          Reverse(ancestors),
                          IF heur THEN <<rm>> \o ancestors ELSE rmpath)])

CandsForPath(g, p, embeddings, heur, allowed, rmpath) ==
    CandsOnPath(g, p, embeddings, heur, allowed, rmpath[Len(rmpath)],
                SubSeq(rmpath, 1, Len(rmpath) - 1), rmpath)

\* `self._rmpath(p) or list(range(p.num_nodes()))`
OrRange(path, n) == IF path = <<>> THEN [i \in 1..n |-> i - 1] ELSE path

\* every Pattern(...) the generator constructs, in construction order and
\* before the `produced` filter
ExtensionCands(g, p, embeddings, heur, allowed) ==
    CandsForPath(g, p, embeddings, heur, allowed,
                 OrRange(RmPath(p), NumNodes(p)))

AnyUnsortable(cs) ==
    \E k \in 1..Len(cs) : ~Sortable(cs[k].directed, cs[k].edges)

\* a Pattern(...) of the generator raises (sorted() on its edge keys)
ExtensionsRaise(g, p, embeddings, heur, allowed) ==
    AnyUnsortable(ExtensionCands(g, p, embeddings, heur, allowed))

PatternsOf(cs) ==
    [k \in 1..Len(cs) |-> Pattern(cs[k].vlabels, cs[k].edges, cs[k].directed)]

\* the `produced` filter: the constructed patterns, first of each key
Yielded(cs) == DedupBy(PatternsOf(cs), LAMBDA q : q.key)

\* the candidates constructed before the first Pattern(...) that raises
SortablePrefix(cs) ==
    SubSeq(cs, 1, SetMax({k \in 0..Len(cs) : ~AnyUnsortable(SubSeq(cs, 1, k))}))

Extensions(g, p, embeddings, heur, allowed) ==
    Yielded(ExtensionCands(g, p, embeddings, heur, allowed))

(***************************************************************************)
(* miner.py: SuGraMiMiner, SoPaGraMiMiner                                  *)
(***************************************************************************)
NoneSize == -1
MaxWorkers == 2

\* SoPaGraMiMiner.mine: the edge types with count >= min_support
AllowedOf(counts, min_support) ==
    {counts[k][1] : k \in {j \in 1..Len(counts) : counts[j][2] >= min_support}}

AllowedEdgeTypes(g, min_support) == AllowedOf(EdgeTypeCounts(g), min_support)

SoPaSeedOf(kc) ==
    <<Pattern(<<kc[1][1], kc[1][2]>>, <<Edge(0, 1, kc[1][3])>>, kc[1][4] = 1),
      kc[2]>>

FirstOfEach(pairs) == [k \in 1..Len(pairs) |-> pairs[k][1]]

SeedsOfCounts(kept) ==
    FirstOfEach(StableSortBy([k \in 1..Len(kept) |-> SoPaSeedOf(kept[k])],
                             LAMBDA pc2 : <<0 - pc2[2]>>))

\* SoPaGraMiMiner.mine: one seed per allowed type, by descending count
SoPaSeedsOf(counts, min_support) ==
    SeedsOfCounts(SelectSeq(counts, LAMBDA kc : kc[2] >= min_support))

SoPaSeeds(g, min_support) == SoPaSeedsOf(EdgeTypeCounts(g), min_support)

InitialFrontier(g, c) ==
    IF c.miner = "SuGraMi" THEN SeedPatterns(g)
    ELSE SoPaSeeds(g, c.min_support)

\* what the mine loop passes to extensions
HeurOf(c) == c.miner = "SoPaGraMi" /\ c.use_sorting
FilterOf(g, c) ==
    IF c.miner = "SuGraMi" THEN NoFilter
    ELSE TypeFilter(AllowedEdgeTypes(g, c.min_support))

\* _evaluate_patterns, sequential branch
EvaluateAll(g, patterns) ==
    [k \in 1..Len(patterns) |-> <<patterns[k], FullMniEmbeddings(g, patterns[k])>>]

\* _evaluate_patterns takes the sequential branch
SequentialBranch(c, patterns) ==
    ~c.parallel \/ MaxWorkers <= 1 \/ Len(patterns) = 1

Record(p, supp, full_supp, embeddings) ==
    [pattern |-> p, support |-> supp, full_support |-> full_supp,
     embeddings |-> embeddings]

\* the for loop over extensions(...): the yielded patterns whose key is not
\* in results are appended, up to the first Pattern() that raises, which
\* ends the run
Extended(st, res1, cs) ==
    IF AnyUnsortable(cs)
    THEN [st EXCEPT
            !.results = res1,
            !.next = st.next \o
                     SelectSeq(Yielded(SortablePrefix(cs)),
                               LAMBDA q : q.key \notin DOMAIN res1),
            !.raised = TRUE]
    ELSE [st EXCEPT
            !.results = res1,
            !.next = st.next \o
                     SelectSeq(Yielded(cs), LAMBDA q : q.key \notin DOMAIN res1)]

\* after results[p.key] = {...}: the max_size test and the extensions
Recorded(g, c, st, p, embeddings, res1) ==
    IF c.max_size = NoneSize \/ NumNodes(p) < c.max_size
    THEN Extended(st, res1,
                  ExtensionCands(g, p, embeddings, HeurOf(c), FilterOf(g, c)))
    ELSE [st EXCEPT !.results = res1]

\* Gated with the threshold off by one (supp >= min_support - 1)
GatedOffByOne(g, c, st, p, embeddings, supp) ==
    IF supp >= c.min_support - 1
    THEN Recorded(g, c, st, p, embeddings,
                  (p.key :> Record(p, supp, FullSupportCount(g, p, NoCap),
                                   embeddings)) @@ st.results)
    ELSE st

\* the support gate
Gated(g, c, st, p, embeddings, supp) ==
    IF supp >= c.min_support
    THEN Recorded(g, c, st, p, embeddings,
                  (p.key :> Record(p, supp, FullSupportCount(g, p, NoCap),
                                   embeddings)) @@ st.results)
    ELSE st

\* adj[u_g] had neighbor_order sorted self.G.adj[u_g] in place
AdjSortedInPlace(g, u_g) == NeighborOrder(g, u_g)

\* SoGraMiHeuristics.neighbor_order(u_g) sorts list(self.G.adj[u_g]), a copy:
\* adj[u_g] after the call
AdjAfterNeighborOrder(g, u_g) == g.adj[u_g]

\* the data-graph nodes extensions(p, embeddings, heur) orders the
\* neighbours of: emb[u_p] for every vertex u_p of grow_verts
OrderedNodes(embeddings, path) ==
    UNION { { embeddings[j][path[k]] :
                k \in {i \in 1..Len(path) : path[i] \in DOMAIN embeddings[j]} }
            : j \in 1..Len(embeddings) }

\* the data graph after extensions(p, embeddings, heur, allowed)
GraphAfterExtensions(g, p, embeddings, heur) ==
    IF heur
    THEN [g EXCEPT !.adj =
            [x \in DOMAIN g.adj |->
               IF x \in OrderedNodes(embeddings, OrRange(RmPath(p), NumNodes(p)))
               THEN AdjAfterNeighborOrder(g, x) ELSE g.adj[x]]]
    ELSE g

\* the data graph after one iteration of `for p, embeddings in eval_results`
GraphAfterProcess(g, c, p, embeddings) ==
    IF /\ MniSupport(embeddings, NumNodes(p)) >= c.min_support
       /\ (c.max_size = NoneSize \/ NumNodes(p) < c.max_size)
    THEN GraphAfterExtensions(g, p, embeddings, HeurOf(c))
    ELSE g

\* one iteration of `for p, embeddings in eval_results`
ProcessOne(g, c, st, p, embeddings) ==
    Gated(g, c, st, p, embeddings, MniSupport(embeddings, NumNodes(p)))

\* the `seen` filter that ends a pass
DedupFrontier(next) == DedupBy(next, LAMBDA q : q.key)

\* _worker_embeddings: the worker rebuilds the graph from the payload
\* (directed, vlabels, adj, rev) and the pattern from (vlabels, edges)
WorkerEmbeddings(g, p) ==
    LET g2 == [DataGraph(g.directed, g.vlabels, <<>>)
                 EXCEPT !.adj = g.adj, !.rev = g.rev]
    IN FullMniEmbeddings(g2, Pattern(p.vlabels, p.edges, g.directed))

\* mine with parallel = False as a function of its input: the while loop,
\* one pass per call
ProcessAll(g, c, res, ev) ==
    LET F[i \in 0..Len(ev)] ==
            IF i = 0 THEN [results |-> res, next |-> <<>>, raised |-> FALSE]
            ELSE IF F[i - 1].raised THEN F[i - 1]
            ELSE ProcessOne(g, c, F[i - 1], ev[i][1], ev[i][2])
    IN F[Len(ev)]

RECURSIVE MineLoop(_, _, _, _)
AfterPass(g, c, st) ==
    IF st.raised THEN [raised |-> TRUE, results |-> <<>>]
    ELSE MineLoop(g, c, DedupFrontier(st.next), st.results)

MineLoop(g, c, fr, res) ==
    IF fr = <<>> THEN [raised |-> FALSE, results |-> res]
    ELSE AfterPass(g, c, ProcessAll(g, c, res, EvaluateAll(g, fr)))

MineSequential(g, c) ==
    MineLoop(g, [c EXCEPT !.parallel = FALSE], InitialFrontier(g, c), <<>>)

(***************************************************************************)
(* The inputs                                                              *)
(***************************************************************************)
MaxNodes == 3
MaxEdges == 2
MaxSupport == 2
MaxSize == 3

GraphELabels == {NoneLabel, 97}

EdgeLists(n, labels, maxlen) ==
    UNION { [1..m -> {e \in {Edge(u, v, l) : u \in 0..(n - 1),
                                             v \in 0..(n - 1),
                                             l \in labels} : e.u # e.v}]
            : m \in 0..maxlen }

GraphInputs ==
    UNION { { DataGraph(d, vl, es) :
                d \in BOOLEAN,
                vl \in [1..n -> VLabelUniverse],
                es \in EdgeLists(n, GraphELabels, MaxEdges) } : n \in 1..MaxNodes }

MinerInputs ==
    { c \in [miner : {"SuGraMi", "SoPaGraMi"}, min_support : 0..MaxSupport,
             use_sorting : BOOLEAN, parallel : {FALSE}, max_size : {NoneSize}] :
        c.miner = "SuGraMi" => ~c.use_sorting }

(***************************************************************************)
(* The mining run                                                          *)
(***************************************************************************)
Idle == <<>>
NoError == "none"

Init ==
    /\ G \in GraphInputs
    /\ cfg \in MinerInputs
    /\ pc = "idle"
    /\ frontier = <<>>
    /\ pending = {}
    /\ evalResults = <<>>
    /\ idx = 0
    /\ nextFrontier = <<>>
    /\ results = <<>>
    /\ raw = Idle /\ err = NoError
    /\ pat = Idle /\ prev = Idle /\ lastOp = Idle
    /\ embs = Idle /\ parentSupp = 0 /\ cnt = 0 /\ lastCap = 0

\* the start of a pass over a new frontier, or the return
EnterPass(c, fr) ==
    /\ frontier' = fr
    /\ pc' = IF fr = <<>> THEN "done" ELSE "evaluate"
    /\ pending' = IF SequentialBranch(c, fr) THEN {} ELSE 1..Len(fr)
    /\ evalResults' = <<>>
    /\ idx' = 0
    /\ nextFrontier' = <<>>

\* mine(parallel, max_size) is called: the seeds become the frontier
Mine(parallel, max_size) ==
    /\ pc = "idle"
    /\ cfg' = [cfg EXCEPT !.parallel = parallel, !.max_size = max_size]
    /\ results' = <<>>
    /\ EnterPass([cfg EXCEPT !.parallel = parallel, !.max_size = max_size],
                 InitialFrontier(G, cfg))
    /\ UNCHANGED <<G, raw, err, pat, canonVars, embedVars>>

\* _evaluate_patterns, sequential branch
EvaluateSequential ==
    /\ pc = "evaluate"
    /\ SequentialBranch(cfg, frontier)
    /\ evalResults' = EvaluateAll(G, frontier)
    /\ idx' = 1
    /\ pc' = "process"
    /\ UNCHANGED <<G, cfg, frontier, pending, nextFrontier, results,
                   raw, err, pat, canonVars, embedVars>>

\* _evaluate_patterns, pool branch: the future of frontier[i] is the next
\* one as_completed yields
FutureCompleted(i) ==
    /\ pc = "evaluate"
    /\ ~SequentialBranch(cfg, frontier)
    /\ i \in pending
    /\ evalResults' = Append(evalResults,
                             <<frontier[i], WorkerEmbeddings(G, frontier[i])>>)
    /\ pending' = pending \ {i}
    /\ idx' = IF pending' = {} THEN 1 ELSE 0
    /\ pc' = IF pending' = {} THEN "process" ELSE "evaluate"
    /\ UNCHANGED <<G, cfg, frontier, nextFrontier, results,
                   raw, err, pat, canonVars, embedVars>>

\* FutureFailed had _evaluate_patterns caught the exception and gone on with
\* an empty embedding list for that pattern
FutureFailedSwallowed(i) ==
    /\ pc = "evaluate"
    /\ ~SequentialBranch(cfg, frontier)
    /\ i \in pending
    /\ evalResults' = Append(evalResults, <<frontier[i], <<>>>>)
    /\ pending' = pending \ {i}
    /\ idx' = IF pending' = {} THEN 1 ELSE 0
    /\ pc' = IF pending' = {} THEN "process" ELSE "evaluate"
    /\ err' = "WorkerError"
    /\ UNCHANGED <<G, cfg, frontier, nextFrontier, results,
                   raw, pat, canonVars, embedVars>>

\* _evaluate_patterns, pool branch: the future as_completed yields ended
\* with an exception, which fut.result() raises again in mine's process;
\* nothing catches it, so it leaves _evaluate_patterns and mine
FutureFailed(i) ==
    /\ pc = "evaluate"
    /\ ~SequentialBranch(cfg, frontier)
    /\ i \in pending
    /\ pc' = "error"
    /\ err' = "WorkerError"
    /\ UNCHANGED <<G, cfg, frontier, pending, evalResults, idx, nextFrontier,
                   results, raw, pat, canonVars, embedVars>>

\* the state after one iteration of the for loop; the last iteration is
\* followed by the deduplication of next_frontier and the loop test.  An
\* iteration that raises leaves mine with the record it wrote and the
\* patterns it appended before the raise
Continue(st) ==
    IF st.raised
    THEN /\ pc' = "error"
         /\ err' = "TypeError"
         /\ results' = st.results
         /\ nextFrontier' = st.next
         /\ UNCHANGED <<frontier, pending, evalResults, idx>>
    ELSE /\ results' = st.results
         /\ UNCHANGED err
         /\ IF idx < Len(evalResults)
            THEN /\ idx' = idx + 1
                 /\ nextFrontier' = st.next
                 /\ UNCHANGED <<frontier, pending, evalResults, pc>>
            ELSE EnterPass(cfg, DedupFrontier(st.next))

\* one iteration of the for loop over eval_results
ProcessPattern ==
    /\ pc = "process"
    /\ Continue(ProcessOne(G, cfg,
                           [results |-> results, next |-> nextFrontier,
                            raised |-> FALSE],
                           evalResults[idx][1], evalResults[idx][2]))
    /\ G' = GraphAfterProcess(G, cfg, evalResults[idx][1], evalResults[idx][2])
    /\ UNCHANGED <<cfg, raw, pat, canonVars, embedVars>>

Next ==
    \/ \E parallel \in BOOLEAN, max_size \in {NoneSize} \cup 1..MaxSize :
          Mine(parallel, max_size)
    \/ EvaluateSequential
    \/ \E i \in 1..Len(frontier) : FutureCompleted(i)
    \/ \E i \in 1..Len(frontier) : FutureFailed(i)
    \/ ProcessPattern

Spec == Init /\ [][Next]_vars

(***************************************************************************)
(* Pattern construction: the Patterns a caller can build from one another  *)
(* by renumbering, reordering, relabelling and growing.  Every state holds *)
(* the Pattern built last and the one it was derived from.                 *)
(***************************************************************************)
PatternEdges(n) ==
    {e \in {Edge(u, v, l) : u \in 0..(n - 1), v \in 0..(n - 1),
                            l \in ELabelUniverse} : e.u # e.v}

Perms(n) ==
    {f \in [0..(n - 1) -> 0..(n - 1)] :
        \A x, y \in 0..(n - 1) : f[x] = f[y] => x = y}

\* Pattern(vlabels, edges, directed) is constructed from pat
Construct(op, vlabels, edges, directed) ==
    /\ pc = "canon"
    /\ Sortable(directed, edges)
    /\ pat' = Pattern(vlabels, edges, directed)
    /\ prev' = pat
    /\ lastOp' = op
    /\ UNCHANGED <<G, mineVars, embedVars>>

InitCanon ==
    /\ pc = "canon"
    /\ \E d \in BOOLEAN, vl \in [1..2 -> VLabelUniverse], e \in PatternEdges(2) :
          /\ pat = Pattern(vl, <<e>>, d)
          /\ prev = Pattern(vl, <<e>>, d)
    /\ lastOp = "new"
    /\ G = Idle /\ cfg = Idle
    /\ frontier = <<>> /\ pending = {} /\ evalResults = <<>> /\ idx = 0
    /\ nextFrontier = <<>> /\ results = <<>>
    /\ raw = Idle /\ err = NoError
    /\ embs = Idle /\ parentSupp = 0 /\ cnt = 0 /\ lastCap = 0

\* the same pattern with node u renamed f[u]
PermuteNodes(f) ==
    /\ \E u \in DOMAIN f : f[u] # u
    /\ Construct("permute",
                 [i \in 1..NumNodes(pat) |->
                     pat.vlabels[(CHOOSE u \in DOMAIN f : f[u] = i - 1) + 1]],
                 [k \in 1..Len(pat.edges) |->
                     Edge(f[pat.edges[k].u], f[pat.edges[k].v],
                          pat.edges[k].label)],
                 pat.directed)

\* the same pattern with its edge list in the order s
ReorderEdges(s) ==
    /\ \E k \in DOMAIN s : s[k] # k
    /\ \A j, k \in DOMAIN s : s[j] = s[k] => j = k
    /\ Construct("reorder", pat.vlabels,
                 [k \in 1..Len(pat.edges) |-> pat.edges[s[k]]], pat.directed)

\* the same undirected pattern with the endpoints of edge k exchanged
SwapEndpoints(k) ==
    /\ ~pat.directed
    /\ Construct("swap", pat.vlabels,
                 [pat.edges EXCEPT ![k] = Edge(pat.edges[k].v, pat.edges[k].u,
                                               pat.edges[k].label)],
                 pat.directed)

RelabelVertex(u, l) ==
    /\ pat.vlabels[u + 1] # l
    /\ Construct("relabel", [pat.vlabels EXCEPT ![u + 1] = l], pat.edges,
                 pat.directed)

RelabelEdge(k, l) ==
    /\ pat.edges[k].label # l
    /\ Construct("relabel", pat.vlabels,
                 [pat.edges EXCEPT ![k] = Edge(pat.edges[k].u, pat.edges[k].v, l)],
                 pat.directed)

\* one more edge between two nodes of the pattern
AddEdge(e) ==
    /\ Len(pat.edges) < MaxPatEdges
    /\ Construct("grow", pat.vlabels, Append(pat.edges, e), pat.directed)

\* one more node, joined to node u by an edge in either orientation
AddNode(u, lv, el, out) ==
    /\ Len(pat.edges) < MaxPatEdges
    /\ NumNodes(pat) < MaxPatNodes
    /\ Construct("grow", Append(pat.vlabels, lv),
                 Append(pat.edges,
                        IF out THEN Edge(u, NumNodes(pat), el)
                        ELSE Edge(NumNodes(pat), u, el)),
                 pat.directed)

NextCanon ==
    \/ \E f \in Perms(NumNodes(pat)) : PermuteNodes(f)
    \/ \E s \in [1..Len(pat.edges) -> 1..Len(pat.edges)] : ReorderEdges(s)
    \/ \E k \in 1..Len(pat.edges) : SwapEndpoints(k)
    \/ \E u \in 0..(NumNodes(pat) - 1), l \in VLabelUniverse : RelabelVertex(u, l)
    \/ \E k \in 1..Len(pat.edges), l \in ELabelUniverse : RelabelEdge(k, l)
    \/ \E e \in PatternEdges(NumNodes(pat)) : AddEdge(e)
    \/ \E u \in 0..(NumNodes(pat) - 1), lv \in VLabelUniverse,
          el \in ELabelUniverse, out \in BOOLEAN : AddNode(u, lv, el, out)

SpecCanon == InitCanon /\ [][NextCanon]_vars

(***************************************************************************)
(* The enumerator and the generator called on one graph: a seed pattern is *)
(* enumerated, extended along what extensions yields, and counted.         *)
(***************************************************************************)
MaxCap == 3

\* the patterns the generator yields before a Pattern(...) raises, if one does
YieldedBeforeRaise(g, p, embeddings, heur, allowed) ==
    Yielded(SortablePrefix(ExtensionCands(g, p, embeddings, heur, allowed)))

InitEmbed ==
    /\ G \in GraphInputs
    /\ pc = "embed"
    /\ pat = Idle /\ prev = Idle /\ lastOp = "new"
    /\ embs = Idle /\ parentSupp = 0 /\ cnt = 0 /\ lastCap = 0
    /\ cfg = Idle
    /\ frontier = <<>> /\ pending = {} /\ evalResults = <<>> /\ idx = 0
    /\ nextFrontier = <<>> /\ results = <<>>
    /\ raw = Idle /\ err = NoError

\* full_mni_embeddings(q), q one of qs
EnumerateOneOf(qs, op) ==
    \E k \in 1..Len(qs) :
        /\ pat' = qs[k]
        /\ embs' = FullMniEmbeddings(G, qs[k])
        /\ lastOp' = op

\* full_mni_embeddings of a seed pattern
EnumerateSeed ==
    /\ pc = "embed"
    /\ pat = Idle
    /\ EnumerateOneOf(SeedPatterns(G), "seed")
    /\ UNCHANGED <<G, mineVars, prev, parentSupp, cnt, lastCap>>

\* full_mni_embeddings of a pattern that extensions(pat, embs, heur) yields
EnumerateExtension(heur) ==
    /\ pc = "embed"
    /\ pat # Idle
    /\ EnumerateOneOf(YieldedBeforeRaise(G, pat, embs, heur, NoFilter), "extend")
    /\ prev' = pat
    /\ parentSupp' = MniSupport(embs, NumNodes(pat))
    /\ UNCHANGED <<G, mineVars, cnt, lastCap>>

\* full_support_count(pat, cap)
Count(cap) ==
    /\ pc = "embed"
    /\ pat # Idle
    /\ cnt' = FullSupportCount(G, pat, cap)
    /\ lastCap' = cap
    /\ lastOp' = "count"
    /\ UNCHANGED <<G, mineVars, pat, prev, embs, parentSupp>>

NextEmbed ==
    \/ EnumerateSeed
    \/ \E heur \in BOOLEAN : EnumerateExtension(heur)
    \/ \E cap \in {NoCap} \cup 0..MaxCap : Count(cap)

SpecEmbed == InitEmbed /\ [][NextEmbed]_vars

(***************************************************************************)
(* Reference notions the properties are stated against: labelled graphs as *)
(* sets, isomorphism, subgraph patterns of the data graph and their MNI.   *)
(***************************************************************************)
SeqToSet(q) == {q[i] : i \in 1..Len(q)}

OrientedEdge(directed, u, v, l) ==
    IF directed THEN <<u, v, l>> ELSE <<Min2(u, v), Max2(u, v), l>>

\* the edges of the data graph
GraphEdgesOf(g, visits) ==
    {OrientedEdge(g.directed, t[1], t[2], t[3]) : t \in visits}

GraphEdges(g) == GraphEdgesOf(g, SeqToSet(AdjVisits(g)))

\* the labelled graph of a Pattern
StructOfPattern(p) ==
    [directed |-> p.directed,
     nodes |-> 0..(NumNodes(p) - 1),
     lab |-> [x \in 0..(NumNodes(p) - 1) |-> p.vlabels[x + 1]],
     edges |-> EdgeSet(p)]

\* the subgraph pattern of g spanned by the edges es
StructOfEdges(g, es) ==
    [directed |-> g.directed,
     nodes |-> {t[1] : t \in es} \cup {t[2] : t \in es},
     lab |-> [x \in {t[1] : t \in es} \cup {t[2] : t \in es} |-> g.vlabels[x + 1]],
     edges |-> es]

RECURSIVE ReachFrom(_, _)
ReachFrom(seen, es) ==
    IF \E t \in es : (t[1] \in seen) # (t[2] \in seen)
    THEN ReachFrom(seen \cup {t[1] : t \in {e \in es : e[2] \in seen}}
                        \cup {t[2] : t \in {e \in es : e[1] \in seen}}, es)
    ELSE seen

ConnectedStruct(a) ==
    a.nodes # {} /\ ReachFrom({CHOOSE x \in a.nodes : TRUE}, a.edges) = a.nodes

MapEdges(directed, f, es) ==
    {OrientedEdge(directed, f[t[1]], f[t[2]], t[3]) : t \in es}

Injective(f) == \A x, y \in DOMAIN f : f[x] = f[y] => x = y

Isomorphic(a, b) ==
    /\ a.directed = b.directed
    /\ Cardinality(a.nodes) = Cardinality(b.nodes)
    /\ \E f \in [a.nodes -> b.nodes] :
          /\ Injective(f)
          /\ \A x \in a.nodes : a.lab[x] = b.lab[f[x]]
          /\ MapEdges(a.directed, f, a.edges) = b.edges

\* the label- and edge-preserving injections of a into the data graph
ReferenceEmbeddings(g, a) ==
    {f \in [a.nodes -> 0..(Len(g.vlabels) - 1)] :
        /\ Injective(f)
        /\ \A x \in a.nodes : a.lab[x] = g.vlabels[f[x] + 1]
        /\ MapEdges(a.directed, f, a.edges) \subseteq GraphEdges(g)}

ImageCounts(a, fs) == {Cardinality({f[x] : f \in fs}) : x \in a.nodes}

ReferenceMni(g, a) == SetMin(ImageCounts(a, ReferenceEmbeddings(g, a)))

\* the connected subgraph patterns of g with at least one edge that have
\* MNI support >= tau and at most max_size vertices
FrequentSubgraphs(g, tau, max_size) ==
    {a \in {StructOfEdges(g, es) : es \in (SUBSET GraphEdges(g)) \ {{}}} :
        /\ ConnectedStruct(a)
        /\ (max_size = NoneSize \/ Cardinality(a.nodes) <= max_size)
        /\ ReferenceMni(g, a) >= tau}

ResultPatterns(res) == {StructOfPattern(res[k].pattern) : k \in DOMAIN res}

\* two result maps with the same keys and, per key, the same support,
\* full_support and embeddings
SameResults(r1, r2) ==
    /\ DOMAIN r1 = DOMAIN r2
    /\ \A k \in DOMAIN r1 :
          /\ r1[k].support = r2[k].support
          /\ r1[k].full_support = r2[k].full_support
          /\ r1[k].embeddings = r2[k].embeddings

LabelCounts(labels, universe) ==
    [l \in universe |-> Cardinality({i \in 1..Len(labels) : labels[i] = l})]

EdgeLabels(p) == [k \in 1..Len(p.edges) |-> p.edges[k].label]

(***************************************************************************)
(* The demo of test.py: the undirected triangle with vertex labels X, Y, Z *)
(* and unlabeled edges, mined in base mode with min_support = 1.           *)
(***************************************************************************)
S1Graph ==
    DataGraph(FALSE, <<88, 89, 90>>,
              <<Edge(0, 1, NoneLabel), Edge(1, 2, NoneLabel),
                Edge(2, 0, NoneLabel)>>)

S1Miner ==
    [miner |-> "SuGraMi", min_support |-> 1, use_sorting |-> FALSE,
     parallel |-> FALSE, max_size |-> NoneSize]

InitS1 ==
    /\ G = S1Graph
    /\ cfg = S1Miner
    /\ pc = "idle"
    /\ frontier = <<>>
    /\ pending = {}
    /\ evalResults = <<>>
    /\ idx = 0
    /\ nextFrontier = <<>>
    /\ results = <<>>
    /\ raw = Idle /\ err = NoError
    /\ pat = Idle /\ prev = Idle /\ lastOp = Idle
    /\ embs = Idle /\ parentSupp = 0 /\ cnt = 0 /\ lastCap = 0

SpecS1 == InitS1 /\ [][Next]_vars

(***************************************************************************)
(* Construction from caller-supplied arguments: DataGraph(directed,        *)
(* vlabels, edges) with endpoints that may lie outside 0..n-1, self-loops  *)
(* and an empty vertex-label list, then a miner built with a min_support   *)
(* that may be zero or negative, then the mining run.                      *)
(***************************************************************************)
MaxBuildNodes == 2
MaxBuildEdges == 2

BuildELabels == {NoneLabel}

RawEdgeLists(n, labels, maxlen) ==
    UNION { [1..m -> {Edge(u, v, l) : u \in (0 - 1)..n,
                                      v \in (0 - 1)..n,
                                      l \in labels}]
            : m \in 0..maxlen }

RawGraphInputs ==
    UNION { [directed : BOOLEAN,
             vlabels : [1..n -> VLabelUniverse],
             edges : RawEdgeLists(n, BuildELabels, MaxBuildEdges)]
            : n \in 0..MaxBuildNodes }

BuildMinerInputs ==
    [miner : {"SuGraMi", "SoPaGraMi"}, min_support : (0 - 1)..1,
     use_sorting : {FALSE}, parallel : {FALSE}, max_size : {NoneSize}]

InitBuild ==
    /\ raw \in RawGraphInputs
    /\ cfg \in BuildMinerInputs
    /\ G = Idle
    /\ pc = "new"
    /\ err = NoError
    /\ frontier = <<>>
    /\ pending = {}
    /\ evalResults = <<>>
    /\ idx = 0
    /\ nextFrontier = <<>>
    /\ results = <<>>
    /\ pat = Idle /\ prev = Idle /\ lastOp = Idle
    /\ embs = Idle /\ parentSupp = 0 /\ cnt = 0 /\ lastCap = 0

\* DataGraph(directed, vlabels, edges), then the miner's constructor, which
\* stores G and min_support as given
Build ==
    /\ pc = "new"
    /\ IF DataGraphRaises(raw.vlabels, raw.edges)
       THEN /\ pc' = "error"
            /\ err' = "IndexError"
            /\ UNCHANGED G
       ELSE /\ pc' = "idle"
            /\ G' = DataGraph(raw.directed, raw.vlabels, raw.edges)
            /\ UNCHANGED err
    /\ UNCHANGED <<cfg, frontier, pending, evalResults, idx, nextFrontier,
                   results, raw, pat, canonVars, embedVars>>

NextBuild ==
    \/ Build
    \/ Next

SpecBuild == InitBuild /\ [][NextBuild]_vars

(***************************************************************************)
(* Mining runs over data graphs on two nodes whose edges are unlabeled     *)
(* (None) or carry the empty string as label.                              *)
(***************************************************************************)
EmptyLabelGraphInputs ==
    { DataGraph(d, vl, es) :
        d \in BOOLEAN,
        vl \in [1..2 -> VLabelUniverse],
        es \in EdgeLists(2, {NoneLabel, EmptyStr}, MaxEdges) }

InitEmptyLabels ==
    /\ G \in EmptyLabelGraphInputs
    /\ cfg \in MinerInputs
    /\ pc = "idle"
    /\ frontier = <<>>
    /\ pending = {}
    /\ evalResults = <<>>
    /\ idx = 0
    /\ nextFrontier = <<>>
    /\ results = <<>>
    /\ raw = Idle /\ err = NoError
    /\ pat = Idle /\ prev = Idle /\ lastOp = Idle
    /\ embs = Idle /\ parentSupp = 0 /\ cnt = 0 /\ lastCap = 0

SpecEmptyLabels == InitEmptyLabels /\ [][Next]_vars

(***************************************************************************)
(* Properties                                                              *)
(***************************************************************************)
\* C1: two Patterns that differ only by a permutation of the pattern-node
\* ids, a reordering of the edge list or a swap of the endpoints of an
\* undirected edge have equal keys.
C1_KeyInvariantUnderRenumbering ==
    (pc = "canon" /\ lastOp \in {"permute", "reorder", "swap"})
        => pat.key = prev.key

\* C2: two Patterns of the same directedness whose vertex-label multisets or
\* edge-label multisets differ have unequal keys; None and "" are different
\* edge labels.
C2_DifferentLabelsDifferentKeys ==
    (/\ pc = "canon"
     /\ pat.directed = prev.directed
     /\ \/ LabelCounts(pat.vlabels, VLabelUniverse)
              # LabelCounts(prev.vlabels, VLabelUniverse)
        \/ LabelCounts(EdgeLabels(pat), ELabelUniverse)
              # LabelCounts(EdgeLabels(prev), ELabelUniverse))
        => pat.key # prev.key

\* C3: when SuGraMiMiner.mine returns, every connected subgraph pattern of
\* the data graph with MNI support >= min_support and at most max_size
\* vertices (when set) is the pattern of some entry of the result map.
C3_DriverComplete ==
    (pc = "done" /\ cfg.miner = "SuGraMi")
        => \A a \in FrequentSubgraphs(G, cfg.min_support, cfg.max_size) :
              \E b \in ResultPatterns(results) : Isomorphic(a, b)

\* C4: when mine returns, no two distinct entries of the result map hold
\* isomorphic patterns.
C4_NoIsomorphicDuplicates ==
    pc = "done"
        => \A k1, k2 \in DOMAIN results :
              k1 # k2 => ~Isomorphic(StructOfPattern(results[k1].pattern),
                                     StructOfPattern(results[k2].pattern))

\* C5: at every point of a mining run every result record has support >=
\* min_support, and that support is mni_support of the record's embeddings.
C5_DriverSound ==
    pc \in {"evaluate", "process", "done", "error"}
        => \A k \in DOMAIN results :
              /\ results[k].support >= cfg.min_support
              /\ results[k].support =
                    MniSupport(results[k].embeddings,
                               NumNodes(results[k].pattern))

\* C5 witness: a run has returned a non-empty map under min_support >= 2
\* although one of its seed patterns was rejected by the support gate.
C5_Witness ==
    /\ pc = "done"
    /\ cfg.min_support >= 2
    /\ DOMAIN results # {}
    /\ \E q \in SeqToSet(InitialFrontier(G, cfg)) : q.key \notin DOMAIN results

\* C6: every mapping returned by full_mni_embeddings(pat) assigns every
\* pattern node, is injective, preserves vertex labels and satisfies
\* has_edge(emb[u_p], emb[v_p], elab) for every pattern edge.
C6_EmbeddingsPreserve ==
    (pc = "embed" /\ pat # Idle)
        => \A j \in 1..Len(embs) :
              /\ DOMAIN embs[j] = 0..(NumNodes(pat) - 1)
              /\ Injective(embs[j])
              /\ \A x \in DOMAIN embs[j] :
                    /\ embs[j][x] \in 0..(Len(G.vlabels) - 1)
                    /\ pat.vlabels[x + 1] = G.vlabels[embs[j][x] + 1]
              /\ \A k \in 1..Len(pat.edges) :
                    HasEdge(G, embs[j][pat.edges[k].u], embs[j][pat.edges[k].v],
                            pat.edges[k].label)

\* C6 witness: a directed pattern with two edges has two embeddings or more.
C6_Witness ==
    /\ pc = "embed" /\ pat # Idle
    /\ pat.directed
    /\ Len(pat.edges) >= 2
    /\ Len(embs) >= 2

\* C7: full_support_count(pat) without a cap is the number of embeddings
\* full_mni_embeddings(pat) returns, and with a cap c it is the smaller of c
\* and that number.
C7_CountEqualsEmbeddings ==
    (pc = "embed" /\ lastOp = "count")
        => cnt = IF lastCap = NoCap THEN Len(embs) ELSE Min2(lastCap, Len(embs))

\* C7 witness: a count was cut short by its cap.
C7_Witness ==
    /\ pc = "embed" /\ lastOp = "count"
    /\ lastCap >= 1
    /\ lastCap < Len(embs)
    /\ cnt = lastCap

\* C7, in a mining run: every result record's full_support is the length
\* of its embeddings list.
C7_RecordCountsAgree ==
    \A k \in DOMAIN results :
        results[k].full_support = Len(results[k].embeddings)

\* C8: a pattern yielded by extensions(p, E) has MNI support at most
\* mni_support(E, |p.vlabels|).
C8_AntiMonotone ==
    (pc = "embed" /\ lastOp = "extend")
        => MniSupport(embs, NumNodes(pat)) <= parentSupp

\* C8 witness: an extension whose support is strictly below its parent's,
\* and one that keeps a support of 2 or more.
C8_Witness ==
    /\ pc = "embed" /\ lastOp = "extend"
    /\ parentSupp >= 2
    /\ MniSupport(embs, NumNodes(pat)) < parentSupp
    /\ MniSupport(embs, NumNodes(pat)) >= 1

\* C9: mine(parallel=True) returns the result map of mine(parallel=False),
\* whatever the order in which the futures completed.
C9_ParallelEquivalence ==
    (pc = "done" /\ cfg.parallel)
        => SameResults(results, MineSequential(G, cfg).results)

\* C10: on an input where every edge type occurs at least min_support
\* times, SoPaGraMiMiner.mine returns the result map of SuGraMiMiner.mine.
C10_PrefilterEquivalence ==
    (/\ pc = "done"
     /\ cfg.miner = "SoPaGraMi"
     /\ ~cfg.parallel
     /\ \A k \in 1..Len(EdgeTypeCounts(G)) :
           EdgeTypeCounts(G)[k][2] >= cfg.min_support)
        => SameResults(results,
                       MineSequential(G, [cfg EXCEPT !.miner = "SuGraMi",
                                                     !.use_sorting = FALSE]).results)

\* C11: SoPaGraMiMiner with use_sorting=True returns the same set of result
\* keys as SoPaGraMiMiner with use_sorting=False on the same input.
C11_HeuristicsKeepKeys ==
    (/\ pc = "done"
     /\ cfg.miner = "SoPaGraMi"
     /\ cfg.use_sorting
     /\ ~cfg.parallel)
        => DOMAIN results =
              DOMAIN MineSequential(G, [cfg EXCEPT !.use_sorting = FALSE]).results

\* C12: mining the triangle X, Y, Z with min_support = 1 and max_size = 3 in
\* base mode returns exactly seven patterns: three 1-edge patterns with
\* full_support 2 and support 1, three 2-edge paths, and one 3-edge triangle
\* with support 1 and full_support 6.
C12_TriangleScenario ==
    (pc = "done" /\ cfg.max_size = 3)
        => /\ Cardinality(DOMAIN results) = 7
           /\ Cardinality({k \in DOMAIN results :
                              /\ Len(results[k].pattern.edges) = 1
                              /\ results[k].full_support = 2
                              /\ results[k].support = 1}) = 3
           /\ Cardinality({k \in DOMAIN results :
                              /\ Len(results[k].pattern.edges) = 2
                              /\ NumNodes(results[k].pattern) = 3}) = 3
           /\ Cardinality({k \in DOMAIN results :
                              /\ Len(results[k].pattern.edges) = 3
                              /\ NumNodes(results[k].pattern) = 3
                              /\ results[k].support = 1
                              /\ results[k].full_support = 6}) = 1

\* C13: when max_size is set to m >= 1, every pattern of the result map mine
\* returns has at most m vertices, in base and in pre-filtered mode.
C13_MaxSizeBound ==
    (pc = "done" /\ cfg.max_size # NoneSize)
        => \A k \in DOMAIN results :
              NumNodes(results[k].pattern) <= cfg.max_size

\* C16: during a mining run a result record, once written for a key, is
\* never overwritten or changed.
C16_RecordsWrittenOnce ==
    [][\A k \in DOMAIN results :
          k \in DOMAIN results' /\ results'[k] = results[k]]_vars

\* an edge of the constructor's arguments has an endpoint outside 0..n-1
InvalidEndpoints(r) ==
    \E k \in 1..Len(r.edges) :
        \/ r.edges[k].u \notin 0..(Len(r.vlabels) - 1)
        \/ r.edges[k].v \notin 0..(Len(r.vlabels) - 1)

\* C14: building a DataGraph with an edge endpoint outside 0..n-1 ends in an
\* error, and mining with a negative min_support never returns a result map.
C14_InvalidInputFailsFast ==
    (raw # Idle /\ pc # "new")
        => /\ InvalidEndpoints(raw) => pc = "error"
           /\ cfg.min_support < 0 => pc # "done"

\* C15: in parallel mode, once a worker's embedding search has failed the
\* mine call has ended with that error: it takes no further step, so no
\* result map, from this pass or from earlier ones, is returned.
C15_WorkerFailureAborts ==
    err = "WorkerError" => (pc = "error" /\ ~ENABLED Next)

\* C15 witness: a worker failed in a later pass, after other futures of that
\* pass had completed and with records of earlier passes in results.
C15_Witness ==
    /\ pc = "error"
    /\ err = "WorkerError"
    /\ evalResults # <<>>
    /\ DOMAIN results # {}

\* C17: for every min_support >= 0, mine called with max_size=None ends by
\* returning the result map: it never ends by raising instead (the failure
\* of a worker process apart).
C17_ReturnsResultMap ==
    (cfg.max_size = NoneSize /\ pc = "error") => err = "WorkerError"

\* C18: every tuple of the canonical DFS code has direction flag 0
\* (undirected) or 1 (directed), and each pattern edge is emitted as exactly
\* one tuple.
C18_FlagsAndOneTuplePerEdge ==
    pc = "canon"
        => /\ \A i \in 1..Len(pat.key[2]) :
                 pat.key[2][i][6] = IF pat.directed THEN 1 ELSE 0
           /\ Len(pat.key[2]) = Cardinality(EdgeKeys(pat.directed, pat.edges))

SumCounts(counts) ==
    LET F[i \in 0..Len(counts)] ==
            IF i = 0 THEN 0 ELSE F[i - 1] + counts[i][2]
    IN F[Len(counts)]

\* C19: for an undirected DataGraph, edge_type_counts() counts each input
\* edge exactly once under its normalized type (lu <= lv, dflag 0), so the
\* counts sum to the number of input edges, self-loops included.
C19_UndirectedCountsEachEdgeOnce ==
    (/\ raw # Idle
     /\ pc = "idle"
     /\ ~raw.directed
     /\ ~InvalidEndpoints(raw))
        => /\ SumCounts(EdgeTypeCounts(G)) = Len(raw.edges)
           /\ \A i \in 1..Len(EdgeTypeCounts(G)) :
                 /\ EdgeTypeCounts(G)[i][1][1] <= EdgeTypeCounts(G)[i][1][2]
                 /\ EdgeTypeCounts(G)[i][1][4] = 0

\* C20: a mining run never changes the DataGraph: directed, vlabels, adj,
\* rev and lab2nodes keep their values over every step of mine.
C20_GraphUnchanged ==
    [][G' = G]_vars

\* C20 witness: a run with the heuristics on has returned after it called
\* extensions on a recorded pattern, and with it neighbor_order on a node
\* whose adjacency list is not in the order neighbor_order returns.
C20_Witness ==
    /\ pc = "done"
    /\ HeurOf(cfg)
    /\ \E k \in DOMAIN results :
          /\ cfg.max_size = NoneSize
                \/ NumNodes(results[k].pattern) < cfg.max_size
          /\ \E x \in OrderedNodes(results[k].embeddings,
                                    OrRange(RmPath(results[k].pattern),
                                            NumNodes(results[k].pattern))) :
                NeighborOrder(G, x) # G.adj[x]

====
